---- MODULE Spec2Model ----
(***************************************************************************)
(* FuelConsumptionTracker (src/app.js): the in-memory store of vehicles    *)
(* and fuel records, its mirror in localStorage, and the operations on it. *)
(*                                                                         *)
(* JavaScript numbers are modelled as tagged values.  A finite number is   *)
(* [k |-> "num", v |-> h] where h is the value in hundredths (10 km is     *)
(* v = 1000, 6.67 km/l is v = 667): it stands for the double nearest to    *)
(* h / 100, which is what the literal and parseFloat(x.toFixed(2)) give.   *)
(* Any other finite double is [k |-> "bin", v |-> s, m |-> m, e |-> e],    *)
(* the value s * m * 2^e with a mantissa m of 53 bits; the sums of amounts *)
(* with decimals are of this kind.  The other values are Infinity,         *)
(* -Infinity, NaN and the JSON null.                                       *)
(***************************************************************************)
EXTENDS Integers, Sequences, FiniteSets, TLC

VARIABLES vehicles, fuelRecords, localStorage, ret, imports, caller, twin

vars == <<vehicles, fuelRecords, localStorage, ret, imports, caller, twin>>

\* ---------------------------------------------------------------- bounds
MaxVehicles == 2
MaxRecords == 2
MaxImports == 1

\* ---------------------------------------------------------------- numbers
Scale == 100

Num(h) == [k |-> "num", v |-> h]
PosInfinity == [k |-> "inf", v |-> 1]
NegInfinity == [k |-> "inf", v |-> -1]
NaN == [k |-> "nan", v |-> 0]
Null == [k |-> "null", v |-> 0]

IsFinite(x) == x.k \in {"num", "bin"}

Abs(n) == IF n < 0 THEN -n ELSE n
Sign(n) == IF n < 0 THEN -1 ELSE IF n > 0 THEN 1 ELSE 0

\* ---------------------------------------------------- doubles (IEEE 754)
\* A natural number of any size is the sequence of its digits in base
\* 2^15, least significant first, without leading zeros (0 is <<>>).
Base == 32768
BaseBits == 15
MantissaBits == 53

RECURSIVE Carry(_, _)
Carry(s, c) ==
  IF s = <<>>
    THEN (IF c = 0 THEN <<>> ELSE <<c % Base>> \o Carry(<<>>, c \div Base))
    ELSE <<(s[1] + c) % Base>> \o Carry(Tail(s), (s[1] + c) \div Base)

RECURSIVE Trim(_)
Trim(s) == IF s # <<>> /\ s[Len(s)] = 0 THEN Trim(SubSeq(s, 1, Len(s) - 1)) ELSE s

Limb(a, i) == IF i <= Len(a) THEN a[i] ELSE 0
Longest(a, b) == IF Len(a) > Len(b) THEN Len(a) ELSE Len(b)

BigFromInt(n) == Carry(<<>>, n)
RECURSIVE BigToInt(_)
BigToInt(a) == IF a = <<>> THEN 0 ELSE a[1] + Base * BigToInt(Tail(a))

BigAdd(a, b) == Carry([i \in 1..Longest(a, b) |-> Limb(a, i) + Limb(b, i)], 0)
\* a - b, for a >= b.
BigSub(a, b) == Trim(Carry([i \in 1..Len(a) |-> a[i] - Limb(b, i)], 0))
\* a * k, for 0 <= k <= Base.
BigMulSmall(a, k) == Trim(Carry([i \in 1..Len(a) |-> a[i] * k], 0))

RECURSIVE CmpFrom(_, _, _)
CmpFrom(a, b, i) ==
  IF i = 0 THEN 0
  ELSE IF a[i] > b[i] THEN 1
  ELSE IF a[i] < b[i] THEN -1
  ELSE CmpFrom(a, b, i - 1)
\* The sign of a - b.
BigCmp(a, b) ==
  IF Len(a) > Len(b) THEN 1 ELSE IF Len(a) < Len(b) THEN -1 ELSE CmpFrom(a, b, Len(a))

\* a * 2^n and the integer part of a / 2^n.
BigShl(a, n) ==
  IF a = <<>> THEN <<>>
  ELSE [i \in 1..(n \div BaseBits) |-> 0] \o BigMulSmall(a, 2 ^ (n % BaseBits))
BigShr(a, n) ==
  LET w == n \div BaseBits
      r == n % BaseBits
      t == IF w >= Len(a) THEN <<>> ELSE SubSeq(a, w + 1, Len(a))
  IN  Trim([i \in 1..Len(t) |->
             (t[i] \div (2 ^ r)) + (Limb(t, i + 1) % (2 ^ r)) * (2 ^ (BaseBits - r))])

RECURSIVE BitLen(_)
BitLen(n) == IF n = 0 THEN 0 ELSE 1 + BitLen(n \div 2)
BigBitLen(a) == IF a = <<>> THEN 0 ELSE BaseBits * (Len(a) - 1) + BitLen(a[Len(a)])

\* Quotient q and remainder r of a by a digit k: short division from the
\* leading digit of a, position n, down.
RECURSIVE ShortDiv(_, _, _, _)
ShortDiv(a, k, n, r) ==
  IF n = 0 THEN [q |-> <<>>, r |-> r]
  ELSE LET rest == ShortDiv(a, k, n - 1, (r * Base + a[n]) % k)
       IN  [q |-> rest.q \o <<(r * Base + a[n]) \div k>>, r |-> rest.r]
BigDivSmall(a, k) ==
  LET qr == ShortDiv(a, k, Len(a), 0)
  IN  [q |-> Trim(qr.q), r |-> qr.r]

\* b * Base^k * g.
Multiple(b, k, g) == IF g = 0 THEN <<>> ELSE [j \in 1..k |-> 0] \o BigMulSmall(b, g)

\* The largest digit g such that b * Base^k * g <= r, from a guess not below it.
RECURSIVE Digit(_, _, _, _)
Digit(r, b, k, g) ==
  IF BigCmp(r, Multiple(b, k, g)) >= 0 THEN g ELSE Digit(r, b, k, g - 1)

\* The guess of long division: the two leading digits of r over the leading
\* digit of b, which is at least Base / 2.
Guess(r, b, k) ==
  LET g == (Limb(r, Len(b) + k + 1) * Base + Limb(r, Len(b) + k)) \div b[Len(b)]
  IN  IF g >= Base THEN Base - 1 ELSE g

\* Long division of r by b, r < b * Base^(k + 1): the digits of the quotient
\* from position k down, and the remainder.
RECURSIVE DivLimbs(_, _, _)
DivLimbs(r, b, k) ==
  IF k < 0 THEN [q |-> <<>>, r |-> r]
  ELSE LET g == Digit(r, b, k, Guess(r, b, k))
           rest == DivLimbs(BigSub(r, Multiple(b, k, g)), b, k - 1)
       IN  [q |-> rest.q \o <<g>>, r |-> rest.r]

\* Quotient q and remainder r of a by b, b other than 0: both are shifted
\* until the leading digit of b is at least Base / 2.
BigDivMod(a, b) ==
  LET sh == BaseBits - BitLen(b[Len(b)])
      qr == DivLimbs(BigShl(a, sh), BigShl(b, sh), Len(BigShl(a, sh)) - Len(b))
  IN  [q |-> Trim(qr.q), r |-> BigShr(qr.r, sh)]

\* A finite double other than 0 is s * m * 2^e with s in {1, -1} and m of
\* exactly 53 bits.  RoundToDouble is the double nearest to s * (M + f) * 2^E,
\* ties to even, where 0 <= f < 1 and f > 0 iff sticky.
RoundToDouble(s, M, E, sticky) ==
  LET n == BigBitLen(M)
      d == n - MantissaBits
  IN  IF d <= 0 THEN [s |-> s, m |-> BigShl(M, -d), e |-> E + d]
      ELSE LET q == BigShr(M, d)
               rem == BigSub(M, BigShl(q, d))
               c == BigCmp(rem, BigShl(<<1>>, d - 1))
               up == c > 0 \/ (c = 0 /\ (sticky \/ q[1] % 2 = 1))
               q2 == IF up THEN BigAdd(q, <<1>>) ELSE q
           IN  IF BigBitLen(q2) > MantissaBits
                 THEN [s |-> s, m |-> BigShr(q2, 1), e |-> E + d + 1]
                 ELSE [s |-> s, m |-> q2, e |-> E + d]

Zero == [s |-> 1, m |-> <<>>, e |-> 0]
IsZero(x) == x.m = <<>>

\* The double of the decimal literal h / 100.
DoubleOfHundredths(h) ==
  IF h = 0 THEN Zero
  ELSE LET qr == BigDivSmall(BigShl(BigFromInt(Abs(h)), 64), Scale)
       IN  RoundToDouble(Sign(h), qr.q, -64, qr.r # 0)

\* x + y on doubles.
DoubleAdd(x, y) ==
  IF IsZero(x) THEN y
  ELSE IF IsZero(y) THEN x
  ELSE LET e == IF x.e < y.e THEN x.e ELSE y.e
           a == BigShl(x.m, x.e - e)
           b == BigShl(y.m, y.e - e)
           c == BigCmp(a, b)
       IN  IF x.s = y.s THEN RoundToDouble(x.s, BigAdd(a, b), e, FALSE)
           ELSE IF c = 0 THEN Zero
           ELSE IF c > 0 THEN RoundToDouble(x.s, BigSub(a, b), e, FALSE)
           ELSE RoundToDouble(y.s, BigSub(b, a), e, FALSE)

\* x / y on doubles, y other than 0.
DoubleDivide(x, y) ==
  IF IsZero(x) THEN Zero
  ELSE LET qr == BigDivMod(BigShl(x.m, MantissaBits + 2), y.m)
       IN  RoundToDouble(x.s * y.s, qr.q, x.e - y.e - (MantissaBits + 2), qr.r # <<>>)

\* The integer n of x.toFixed(2): n / 100 is as close to x as possible, the
\* n of larger magnitude if there are two such n; x < 2^31 / 100.
HundredthsOfToFixed2(x) ==
  IF IsZero(x) THEN 0
  ELSE LET twice == BigMulSmall(x.m, 2 * Scale)
           n == IF x.e >= 0 THEN BigShl(BigMulSmall(x.m, Scale), x.e)
                ELSE BigShr(BigAdd(twice, BigShl(<<1>>, -x.e)), 1 - x.e)
       IN  x.s * BigToInt(n)

\* A finite number as a double, and a double as a number: Num(h) if it is
\* the double of h / 100.
ToDouble(x) ==
  IF x.k = "num" THEN DoubleOfHundredths(x.v) ELSE [s |-> x.v, m |-> x.m, e |-> x.e]
OfDouble(d) ==
  LET h == HundredthsOfToFixed2(d)
  IN  IF IsZero(d) THEN Num(0)
      ELSE IF DoubleOfHundredths(h) = d THEN Num(h)
      ELSE [k |-> "bin", v |-> d.s, m |-> d.m, e |-> d.e]

\* Whole numbers, which doubles add and subtract exactly.
IsWhole(x) == x.k = "num" /\ x.v % Scale = 0
\* The quotient of two hundredths lies halfway between two hundredths.
IsTie(x, y) == (2 * Scale * Abs(x.v)) % (2 * Abs(y.v)) = Abs(y.v)

\* ToNumber of the operands of an arithmetic operator: null counts as 0.
ToNumber(x) == IF x.k = "null" THEN Num(0) ELSE x

\* a + b on doubles (whole numbers add exactly).
Plus(a, b) ==
  LET x == ToNumber(a)
      y == ToNumber(b)
  IN  IF x.k = "nan" \/ y.k = "nan" THEN NaN
      ELSE IF x.k = "inf" /\ y.k = "inf" THEN (IF x.v = y.v THEN x ELSE NaN)
      ELSE IF x.k = "inf" THEN x
      ELSE IF y.k = "inf" THEN y
      ELSE IF IsWhole(x) /\ IsWhole(y) THEN Num(x.v + y.v)
      ELSE OfDouble(DoubleAdd(ToDouble(x), ToDouble(y)))

Negate(a) ==
  LET x == ToNumber(a)
  IN  IF x.k = "nan" THEN NaN
      ELSE IF x.k = "inf" THEN [k |-> "inf", v |-> -x.v]
      ELSE [x EXCEPT !.v = -x.v]

\* a - b on doubles.
Minus(a, b) == Plus(a, Negate(b))

\* a > 0 as JavaScript evaluates it (false for NaN, null counts as 0).
GreaterThanZero(a) ==
  LET x == ToNumber(a)
  IN  x.k \in {"num", "bin", "inf"} /\ x.v > 0

\* DivToFixed2 that cuts the quotient after two decimals instead of rounding.
DivToFixed2_Truncate(a, b) ==
  LET x == ToNumber(a)
      y == ToNumber(b)
  IN  IF x.k # "num" \/ y.k # "num" THEN NaN
      ELSE IF y.v = 0
        THEN (IF x.v = 0 THEN NaN ELSE [k |-> "inf", v |-> Sign(x.v)])
      ELSE Num(Sign(x.v) * Sign(y.v) * ((Scale * Abs(x.v)) \div Abs(y.v)))

\* (a / b).toFixed(2) read back by parseFloat: the hundredth nearest to the
\* double a / b.  When the exact quotient of two hundredths is not halfway
\* between two hundredths it is further from halfway than the double is from
\* it, and the hundredth is that of the exact quotient.  x / 0 is +-Infinity,
\* 0 / 0 is NaN and both print and parse back as themselves.
DivToFixed2(a, b) ==
  LET x == ToNumber(a)
      y == ToNumber(b)
  IN  IF x.k = "nan" \/ y.k = "nan" THEN NaN
      ELSE IF x.k = "inf" /\ y.k = "inf" THEN NaN
      ELSE IF x.k = "inf"
        THEN [k |-> "inf", v |-> IF y.v < 0 THEN -x.v ELSE x.v]
      ELSE IF y.k = "inf" THEN Num(0)
      ELSE IF y.v = 0
        THEN (IF x.v = 0 THEN NaN ELSE IF x.v > 0 THEN PosInfinity ELSE NegInfinity)
      ELSE IF x.k = "num" /\ y.k = "num" /\ ~IsTie(x, y)
        THEN Num(Sign(x.v) * Sign(y.v)
                 * ((2 * Scale * Abs(x.v) + Abs(y.v)) \div (2 * Abs(y.v))))
      ELSE Num(HundredthsOfToFixed2(DoubleDivide(ToDouble(x), ToDouble(y))))

\* parseFloat of a number is that number; parseFloat(null) is NaN.
parseFloat(x) == IF x.k = "null" THEN NaN ELSE x

\* ---------------------------------------------------------------- inputs
VehicleIds == {"v1", "v2"}
Names == {"Car A"}
FuelTypes == {"petrol"}
RecordIds == {"r1", "r2"}
Now == "now"
NoDate == "null"
NoNotes == ""

\* The inputs of one run come from one of three classes of caller, so that
\* the reachable states are the sum and not the product of the classes:
\* "amounts" varies fuelAmount and distance (zero included) and leaves date
\* and notes to their defaults, "texts" varies date and notes on one pair of
\* amounts, "imports" hands snapshots of another store to importData.  Every
\* "refunds" books fuel given back as a negative fuelAmount.  Every class
\* calls every operation, and imports the store's own export.  The caller
\* of two stores at once, "tabs", varies the fuelAmount only.  The caller
\* of the statistics, "decimals", hands in positive amounts with decimals:
\* 0.8 or 1.6 l and 0.5 or 1 km.
Callers == {"amounts", "texts", "imports", "refunds"}
FuelAmounts ==
  IF caller \in {"amounts", "tabs"} THEN {Num(0), Num(300)}
  ELSE IF caller = "refunds" THEN {Num(-300), Num(300)}
  ELSE IF caller = "decimals" THEN {Num(80), Num(160)}
  ELSE {Num(300)}
Distances ==
  IF caller = "amounts" THEN {Num(0), Num(2000)}
  ELSE IF caller = "decimals" THEN {Num(50), Num(100)}
  ELSE {Num(2000)}
Dates == IF caller = "texts" THEN {"d1"} ELSE {}
Notes == IF caller = "texts" THEN {"n1"} ELSE {}

\* ---------------------------------------------------------------- helpers
\* FindIndex that returns the last index whose element has the id.
FindIndex_Last(arr, id) ==
  IF \E i \in 1..Len(arr) : arr[i].id = id
    THEN CHOOSE i \in 1..Len(arr) :
           /\ arr[i].id = id
           /\ \A j \in (i + 1)..Len(arr) : arr[j].id # id
    ELSE 0

\* Array.prototype.findIndex: the first index whose element has the id, 0 if none.
FindIndex(arr, id) ==
  IF \E i \in 1..Len(arr) : arr[i].id = id
    THEN CHOOSE i \in 1..Len(arr) :
           /\ arr[i].id = id
           /\ \A j \in 1..(i - 1) : arr[j].id # id
    ELSE 0

RECURSIVE Filter(_, _)
\* Array.prototype.filter with the test r.vehicleId === vehicleId.
Filter(arr, vehicleId) ==
  IF arr = <<>> THEN <<>>
  ELSE IF Head(arr).vehicleId = vehicleId
    THEN <<Head(arr)>> \o Filter(Tail(arr), vehicleId)
    ELSE Filter(Tail(arr), vehicleId)

\* FilterNot that drops only the first record of the vehicle.
FilterNot_FirstOnly(arr, vehicleId) ==
  IF \E i \in 1..Len(arr) : arr[i].vehicleId = vehicleId
    THEN LET i == CHOOSE i \in 1..Len(arr) :
                    /\ arr[i].vehicleId = vehicleId
                    /\ \A j \in 1..(i - 1) : arr[j].vehicleId # vehicleId
         IN  SubSeq(arr, 1, i - 1) \o SubSeq(arr, i + 1, Len(arr))
    ELSE arr

RECURSIVE FilterNot(_, _)
\* Array.prototype.filter with the test r.vehicleId !== vehicleId.
FilterNot(arr, vehicleId) ==
  IF arr = <<>> THEN <<>>
  ELSE IF Head(arr).vehicleId # vehicleId
    THEN <<Head(arr)>> \o FilterNot(Tail(arr), vehicleId)
    ELSE FilterNot(Tail(arr), vehicleId)

\* Array.prototype.splice(index, 1).
Splice(arr, index) ==
  [i \in 1..(Len(arr) - 1) |-> IF i < index THEN arr[i] ELSE arr[i + 1]]

\* ---------------------------------------------------------------- storage
\* JSON.stringify of a number: a non-finite number is written as null.
JsonNumber(x) == IF IsFinite(x) THEN x ELSE Null

\* JSON.stringify of the vehicles array, as the value JSON.parse reads back.
StringifyVehicles(vs) ==
  [i \in 1..Len(vs) |->
     [vs[i] EXCEPT !.totalDistance = JsonNumber(@),
                   !.totalFuelConsumed = JsonNumber(@)]]

\* JSON.stringify of the records array, as the value JSON.parse reads back.
StringifyRecords(rs) ==
  [i \in 1..Len(rs) |->
     [rs[i] EXCEPT !.fuelAmount = JsonNumber(@),
                   !.distance = JsonNumber(@),
                   !.consumption = JsonNumber(@)]]

NoItem == [present |-> FALSE, value |-> <<>>]
Item(json) == [present |-> TRUE, value |-> json]

\* A host without localStorage, and an empty localStorage.
NoStorage == [defined |-> FALSE, fuelTrackerVehicles |-> NoItem, fuelTrackerRecords |-> NoItem]
EmptyStorage == [defined |-> TRUE, fuelTrackerVehicles |-> NoItem, fuelTrackerRecords |-> NoItem]

saveToStorage(ls, vs, rs) ==
  IF ls.defined
    THEN [ls EXCEPT !.fuelTrackerVehicles = Item(StringifyVehicles(vs)),
                    !.fuelTrackerRecords = Item(StringifyRecords(rs))]
    ELSE ls

\* The collections of an instance after loadFromStorage, given the ones before.
loadFromStorage(ls, vs, rs) ==
  [vehicles |-> IF ls.defined /\ ls.fuelTrackerVehicles.present
                  THEN ls.fuelTrackerVehicles.value ELSE vs,
   fuelRecords |-> IF ls.defined /\ ls.fuelTrackerRecords.present
                     THEN ls.fuelTrackerRecords.value ELSE rs]

\* new FuelConsumptionTracker(): empty collections, then loadFromStorage.
constructor(ls) == loadFromStorage(ls, <<>>, <<>>)

\* The last call when it threw: the method and the error.
Return(op, error) == [op |-> op, error |-> error]

\* The last call when it returned: the method and the value returned.
ReturnValue(op, value) == [op |-> op, error |-> "none", value |-> value]

\* No second store: the value of twin while one store runs alone.
NoCall == [op |-> "none"]
NoTwin ==
  [vehicles |-> <<>>, fuelRecords |-> <<>>, localStorage |-> NoStorage,
   ret |-> Return("none", "none"), imports |-> 0, call |-> NoCall, phase |-> "alone"]

\* ---------------------------------------------------------------- operations
\* A store constructed in a host whose localStorage is ls.
Constructed(ls) ==
  /\ localStorage = ls
  /\ vehicles = constructor(ls).vehicles
  /\ fuelRecords = constructor(ls).fuelRecords
  /\ ret = Return("constructor", "none")
  /\ imports = 0
  /\ caller \in Callers
  /\ twin = NoTwin

\* In a browser, on an empty localStorage.
Init == Constructed(EmptyStorage)

\* In a host without localStorage.
InitMemoryOnly == Constructed(NoStorage)

NewVehicle(vehicleId, name, fuelType) ==
  [id |-> vehicleId, name |-> name, fuelType |-> fuelType, createdAt |-> Now,
   totalDistance |-> Num(0), totalFuelConsumed |-> Num(0)]

addVehicle(vehicleId, name, fuelType) ==
  /\ Len(vehicles) < MaxVehicles
  /\ vehicles' = Append(vehicles, NewVehicle(vehicleId, name, fuelType))
  /\ localStorage' = saveToStorage(localStorage, vehicles', fuelRecords)
  /\ ret' = ReturnValue("addVehicle", NewVehicle(vehicleId, name, fuelType))
  /\ UNCHANGED <<fuelRecords, imports, caller>>

\* The record recordFuelConsumption builds; id is what generateId returned.
NewRecord(id, vehicleId, fuelAmount, distance, date, notes) ==
  [id |-> id,
   vehicleId |-> vehicleId,
   fuelAmount |-> parseFloat(fuelAmount),
   distance |-> parseFloat(distance),
   consumption |-> DivToFixed2(distance, fuelAmount),
   date |-> IF date = NoDate THEN Now ELSE date,
   notes |-> notes,
   createdAt |-> Now]

\* vehicle.totalDistance += distance; vehicle.totalFuelConsumed += fuelAmount,
\* on the vehicle at index vi.
AddToTotals(vs, vi, distance, fuelAmount) ==
  [vs EXCEPT ![vi].totalDistance = Plus(@, distance),
             ![vi].totalFuelConsumed = Plus(@, fuelAmount)]

\* generateId draws the time and a random suffix: id is any of RecordIds.
recordFuelConsumption(vehicleId, fuelAmount, distance, date, notes, id) ==
  LET vi == FindIndex(vehicles, vehicleId)
      record == NewRecord(id, vehicleId, fuelAmount, distance, date, notes)
  IN  IF vi = 0
        THEN /\ ret' = Return("recordFuelConsumption", "NotFound")
             /\ UNCHANGED <<vehicles, fuelRecords, localStorage, imports, caller>>
        ELSE /\ Len(fuelRecords) < MaxRecords
             /\ fuelRecords' = Append(fuelRecords, record)
             /\ vehicles' = AddToTotals(vehicles, vi, record.distance, record.fuelAmount)
             /\ localStorage' = saveToStorage(localStorage, vehicles', fuelRecords')
             /\ ret' = ReturnValue("recordFuelConsumption", record)
             /\ UNCHANGED <<imports, caller>>

\* An absent key of the updates object.
Undefined == [k |-> "undefined", v |-> 0]
UndefinedText == "undefined"

\* Patch that assigns all four fields whether or not the key is present.
Patch_AlwaysAssign(record, updates) ==
  [record EXCEPT !.fuelAmount = parseFloat(updates.fuelAmount),
                 !.distance = parseFloat(updates.distance),
                 !.date = updates.date,
                 !.notes = updates.notes]

\* The record after the field assignments of updateRecord.
Patch(record, updates) ==
  [record EXCEPT
     !.fuelAmount = IF updates.fuelAmount # Undefined
                      THEN parseFloat(updates.fuelAmount) ELSE @,
     !.distance = IF updates.distance # Undefined
                    THEN parseFloat(updates.distance) ELSE @,
     !.date = IF updates.date # UndefinedText THEN updates.date ELSE @,
     !.notes = IF updates.notes # UndefinedText THEN updates.notes ELSE @]

\* Recalculate that runs when either amount is positive.
Recalculate_EitherPositive(record) ==
  IF GreaterThanZero(record.distance) \/ GreaterThanZero(record.fuelAmount)
    THEN [record EXCEPT !.consumption = DivToFixed2(record.distance, record.fuelAmount)]
    ELSE record

\* Recalculate that keeps the stored consumption.
Recalculate_Never(record) == record

\* The record after "Recalculate consumption".
Recalculate(record) ==
  IF GreaterThanZero(record.distance) /\ GreaterThanZero(record.fuelAmount)
    THEN [record EXCEPT !.consumption = DivToFixed2(record.distance, record.fuelAmount)]
    ELSE record

\* The vehicles after the update of the owning vehicle's statistics.
MoveTotals(vs, vi, oldRecord, record) ==
  IF vi = 0 THEN vs
  ELSE [vs EXCEPT
          ![vi].totalDistance = Plus(Minus(@, oldRecord.distance), record.distance),
          ![vi].totalFuelConsumed =
             Plus(Minus(@, oldRecord.fuelAmount), record.fuelAmount)]

updateRecord(recordId, updates) ==
  LET recordIndex == FindIndex(fuelRecords, recordId)
  IN  IF recordIndex = 0
        THEN /\ ret' = Return("updateRecord", "NotFound")
             /\ UNCHANGED <<vehicles, fuelRecords, localStorage, imports, caller>>
        ELSE LET oldRecord == fuelRecords[recordIndex]
                 record == Recalculate(Patch(oldRecord, updates))
                 vi == FindIndex(vehicles, record.vehicleId)
             IN  /\ fuelRecords' = [fuelRecords EXCEPT ![recordIndex] = record]
                 /\ vehicles' = MoveTotals(vehicles, vi, oldRecord, record)
                 /\ localStorage' = saveToStorage(localStorage, vehicles', fuelRecords')
                 /\ ret' = ReturnValue("updateRecord", record)
                 /\ UNCHANGED <<imports, caller>>

\* SubtractFromTotals that leaves totalFuelConsumed as it is.
SubtractFromTotals_DistanceOnly(vs, vi, record) ==
  IF vi = 0 THEN vs
  ELSE [vs EXCEPT ![vi].totalDistance = Minus(@, record.distance)]

\* The vehicles after the owning vehicle's statistics lose the record.
SubtractFromTotals(vs, vi, record) ==
  IF vi = 0 THEN vs
  ELSE [vs EXCEPT ![vi].totalDistance = Minus(@, record.distance),
                  ![vi].totalFuelConsumed = Minus(@, record.fuelAmount)]

\* deleteRecord that removes the first record when the id matches none.
deleteRecord_RemovesFirst(recordId) ==
  LET found == FindIndex(fuelRecords, recordId)
      recordIndex == IF found = 0 THEN 1 ELSE found
  IN  IF fuelRecords = <<>>
        THEN /\ ret' = Return("deleteRecord", "NotFound")
             /\ UNCHANGED <<vehicles, fuelRecords, localStorage, imports, caller>>
        ELSE LET record == fuelRecords[recordIndex]
                 vi == FindIndex(vehicles, record.vehicleId)
             IN  /\ vehicles' = SubtractFromTotals(vehicles, vi, record)
                 /\ fuelRecords' = Splice(fuelRecords, recordIndex)
                 /\ localStorage' = saveToStorage(localStorage, vehicles', fuelRecords')
                 /\ ret' = Return("deleteRecord", IF found = 0 THEN "NotFound" ELSE "none")
                 /\ UNCHANGED <<imports, caller>>

deleteRecord(recordId) ==
  LET recordIndex == FindIndex(fuelRecords, recordId)
  IN  IF recordIndex = 0
        THEN /\ ret' = Return("deleteRecord", "NotFound")
             /\ UNCHANGED <<vehicles, fuelRecords, localStorage, imports, caller>>
        ELSE LET record == fuelRecords[recordIndex]
                 vi == FindIndex(vehicles, record.vehicleId)
             IN  /\ vehicles' = SubtractFromTotals(vehicles, vi, record)
                 /\ fuelRecords' = Splice(fuelRecords, recordIndex)
                 /\ localStorage' = saveToStorage(localStorage, vehicles', fuelRecords')
                 /\ ret' = ReturnValue("deleteRecord", TRUE)
                 /\ UNCHANGED <<imports, caller>>

\* deleteVehicle that removes the vehicle and keeps its records.
deleteVehicle_KeepsRecords(vehicleId) ==
  LET vehicleIndex == FindIndex(vehicles, vehicleId)
  IN  IF vehicleIndex = 0
        THEN /\ ret' = Return("deleteVehicle", "NotFound")
             /\ UNCHANGED <<vehicles, fuelRecords, localStorage, imports, caller>>
        ELSE /\ fuelRecords' = fuelRecords
             /\ vehicles' = Splice(vehicles, vehicleIndex)
             /\ localStorage' = saveToStorage(localStorage, vehicles', fuelRecords')
             /\ ret' = ReturnValue("deleteVehicle", TRUE)
             /\ UNCHANGED <<imports, caller>>

deleteVehicle(vehicleId) ==
  LET vehicleIndex == FindIndex(vehicles, vehicleId)
  IN  IF vehicleIndex = 0
        THEN /\ ret' = Return("deleteVehicle", "NotFound")
             /\ UNCHANGED <<vehicles, fuelRecords, localStorage, imports, caller>>
        ELSE /\ fuelRecords' = FilterNot(fuelRecords, vehicleId)
             /\ vehicles' = Splice(vehicles, vehicleIndex)
             /\ localStorage' = saveToStorage(localStorage, vehicles', fuelRecords')
             /\ ret' = ReturnValue("deleteVehicle", TRUE)
             /\ UNCHANGED <<imports, caller>>

\* removeItems that removes the vehicles item only.
removeItems_VehiclesOnly(ls) ==
  IF ls.defined THEN [ls EXCEPT !.fuelTrackerVehicles = NoItem] ELSE ls

\* The two removeItem calls of clearAllData.
removeItems(ls) ==
  IF ls.defined
    THEN [ls EXCEPT !.fuelTrackerVehicles = NoItem, !.fuelTrackerRecords = NoItem]
    ELSE ls

\* clearAllData that empties the collections only if localStorage is defined.
clearAllData_OnlyWithStorage ==
  /\ vehicles' = IF localStorage.defined THEN <<>> ELSE vehicles
  /\ fuelRecords' = IF localStorage.defined THEN <<>> ELSE fuelRecords
  /\ localStorage' = removeItems(localStorage)
  /\ ret' = ReturnValue("clearAllData", Undefined)
  /\ UNCHANGED <<imports, caller>>

clearAllData ==
  /\ vehicles' = <<>>
  /\ fuelRecords' = <<>>
  /\ localStorage' = removeItems(localStorage)
  /\ ret' = ReturnValue("clearAllData", Undefined)
  /\ UNCHANGED <<imports, caller>>

\* getVehicleRecords(vehicleId).
getVehicleRecords(rs, vehicleId) == Filter(rs, vehicleId)

RECURSIVE Reduce(_, _)
\* records.reduce((sum, r) => sum + r[f], 0).
Reduce(records, f) ==
  IF records = <<>> THEN Num(0)
  ELSE Plus(Reduce(SubSeq(records, 1, Len(records) - 1), f),
            records[Len(records)][f])

\* getAverageConsumption that guards the division with totalLiters !== 0.
getAverageConsumption_NonZero(rs, vehicleId) ==
  LET records == getVehicleRecords(rs, vehicleId)
      totalKm == Reduce(records, "distance")
      totalLiters == Reduce(records, "fuelAmount")
  IN  IF Len(records) = 0 THEN Num(0)
      ELSE IF totalLiters # Num(0) THEN DivToFixed2(totalKm, totalLiters)
      ELSE Num(0)

\* getAverageConsumption(vehicleId).
getAverageConsumption(rs, vehicleId) ==
  LET records == getVehicleRecords(rs, vehicleId)
      totalKm == Reduce(records, "distance")
      totalLiters == Reduce(records, "fuelAmount")
  IN  IF Len(records) = 0 THEN Num(0)
      ELSE IF GreaterThanZero(totalLiters) THEN DivToFixed2(totalKm, totalLiters)
      ELSE Num(0)

\* parseFloat(x.toFixed(2)): x rounded to the nearest hundredth.
ToFixed2(x) == DivToFixed2(x, Num(Scale))

\* a <= b on numbers that are not NaN.
LessOrEqual(a, b) ==
  \/ a.k = "inf" /\ a.v < 0
  \/ b.k = "inf" /\ b.v > 0
  \/ a.k = "num" /\ b.k = "num" /\ a.v <= b.v

\* Math.min(...xs) of one or more values: NaN if one of them is NaN, and
\* null counts as 0.
MathMin(xs) ==
  LET ns == [i \in 1..Len(xs) |-> ToNumber(xs[i])]
  IN  IF \E i \in 1..Len(ns) : ns[i].k = "nan" THEN NaN
      ELSE ns[CHOOSE i \in 1..Len(ns) : \A j \in 1..Len(ns) : LessOrEqual(ns[i], ns[j])]

\* Math.max(...xs) of one or more values.
MathMax(xs) ==
  LET ns == [i \in 1..Len(xs) |-> ToNumber(xs[i])]
  IN  IF \E i \in 1..Len(ns) : ns[i].k = "nan" THEN NaN
      ELSE ns[CHOOSE i \in 1..Len(ns) : \A j \in 1..Len(ns) : LessOrEqual(ns[j], ns[i])]

\* The Stats object of a vehicle without records.
ZeroStats ==
  [count |-> 0, totalDistance |-> Num(0), totalFuel |-> Num(0),
   averageConsumption |-> Num(0), minConsumption |-> Num(0), maxConsumption |-> Num(0)]

\* getConsumptionStats(vehicleId).
getConsumptionStats(rs, vehicleId) ==
  LET records == getVehicleRecords(rs, vehicleId)
      consumptions == [i \in 1..Len(records) |-> records[i].consumption]
      totalDistance == Reduce(records, "distance")
      totalFuel == Reduce(records, "fuelAmount")
  IN  IF Len(records) = 0 THEN ZeroStats
      ELSE [count |-> Len(records),
            totalDistance |-> ToFixed2(totalDistance),
            totalFuel |-> ToFixed2(totalFuel),
            averageConsumption |-> DivToFixed2(totalDistance, totalFuel),
            minConsumption |-> MathMin(consumptions),
            maxConsumption |-> MathMax(consumptions)]

\* new Date(date).getTime(), for the dates of the model: "d1" is earlier than "now".
GetTime(date) == IF date = "d1" THEN 1 ELSE 2

\* getRecordsByDateRange(vehicleId, startDate, endDate).
getRecordsByDateRange(rs, vehicleId, startDate, endDate) ==
  LET start == GetTime(startDate)
      end == GetTime(endDate)
  IN  SelectSeq(getVehicleRecords(rs, vehicleId),
                LAMBDA record : GetTime(record.date) >= start /\ GetTime(record.date) <= end)

\* getAllVehicles().
getAllVehicles(vs) == vs

\* getVehicle(vehicleId): Array.prototype.find, undefined if no vehicle has the id.
getVehicle(vs, vehicleId) ==
  IF FindIndex(vs, vehicleId) = 0 THEN Undefined ELSE vs[FindIndex(vs, vehicleId)]

\* JSON text is modelled by what JSON.parse makes of it: "object" with the
\* parsed object, "null" for the text null, "scalar" for the text of a number
\* such as 42 (it parses, and no property of a number is defined), "garbage"
\* for text that does not parse.
JsonObject(data) == [text |-> "object", data |-> data]
JsonNull == [text |-> "null", data |-> <<>>]
JsonScalar == [text |-> "scalar", data |-> <<>>]
JsonGarbage == [text |-> "garbage", data |-> <<>>]

\* exportData(): the snapshot of both collections.
exportData(vs, rs) ==
  JsonObject([vehicles |-> StringifyVehicles(vs),
              records |-> StringifyRecords(rs),
              exportedAt |-> Now])

\* data.key is truthy: the key is present (its value is then an array).
HasKey(data, key) == key \in DOMAIN data

\* Replace that empties the collection whose key is absent.
Replace_Wholesale(data, vs, rs) ==
  [vehicles |-> IF HasKey(data, "vehicles") THEN data.vehicles ELSE <<>>,
   fuelRecords |-> IF HasKey(data, "records") THEN data.records ELSE <<>>]

\* The collections after the two assignments of importData.
Replace(data, vs, rs) ==
  [vehicles |-> IF HasKey(data, "vehicles") THEN data.vehicles ELSE vs,
   fuelRecords |-> IF HasKey(data, "records") THEN data.records ELSE rs]

\* JSON.parse throws on garbage and data.vehicles throws on null; both are
\* caught and rethrown.  Any other value goes through the two assignments
\* and saveToStorage.
importData(jsonData) ==
  IF jsonData.text \in {"garbage", "null"}
    THEN /\ ret' = Return("importData", "Import")
         /\ UNCHANGED <<vehicles, fuelRecords, localStorage, imports, caller>>
    ELSE LET after == Replace(jsonData.data, vehicles, fuelRecords)
             foreign == IF jsonData.text = "object"
                           /\ jsonData # exportData(vehicles, fuelRecords)
                          THEN 1 ELSE 0
         IN  /\ imports + foreign <= MaxImports
             /\ imports' = imports + foreign
             /\ vehicles' = after.vehicles
             /\ fuelRecords' = after.fuelRecords
             /\ localStorage' = saveToStorage(localStorage, vehicles', fuelRecords')
             /\ ret' = ReturnValue("importData", jsonData)
             /\ UNCHANGED caller

\* Snapshots that did not come from this store: a vehicle whose totals match
\* no records, and a record of a vehicle id with a consumption that is not
\* distance / fuelAmount.
ForeignVehicles ==
  <<[id |-> "v1", name |-> "Car A", fuelType |-> "petrol", createdAt |-> Now,
     totalDistance |-> Num(1000), totalFuelConsumed |-> Num(400)]>>
ForeignRecords ==
  <<[id |-> "r1", vehicleId |-> "v2", fuelAmount |-> Num(400), distance |-> Num(1000),
     consumption |-> Num(300), date |-> "d1", notes |-> "", createdAt |-> Now]>>
ForeignSnapshots ==
  IF caller # "imports" THEN {} ELSE
  {JsonObject([vehicles |-> ForeignVehicles, exportedAt |-> Now]),
   JsonObject([records |-> ForeignRecords, exportedAt |-> Now]),
   JsonObject([vehicles |-> ForeignVehicles, records |-> ForeignRecords,
               exportedAt |-> Now])}

\* What a caller may hand to importData in the current state.
ImportInputs ==
  {exportData(vehicles, fuelRecords), JsonNull, JsonScalar, JsonGarbage}
    \cup ForeignSnapshots

\* The updates objects a caller may hand to updateRecord.
UpdateInputs ==
  [fuelAmount : FuelAmounts \cup {Undefined},
   distance : Distances \cup {Undefined},
   date : Dates \cup {UndefinedText},
   notes : Notes \cup {UndefinedText}]

\* A query that returned: the call, its arguments and the value returned.
Answer(op, args, value) == [op |-> op, error |-> "none", args |-> args, value |-> value]

\* The queries as calls on the store: each returns its value and assigns nothing.
\* getVehicleRecords that takes the records it returns out of the store.
call_getVehicleRecords_Consumes(vehicleId) ==
  /\ ret' = Answer("getVehicleRecords", <<vehicleId>>,
                   getVehicleRecords(fuelRecords, vehicleId))
  /\ fuelRecords' = FilterNot(fuelRecords, vehicleId)
  /\ UNCHANGED <<vehicles, localStorage, imports, caller>>

call_getVehicleRecords(vehicleId) ==
  /\ ret' = Answer("getVehicleRecords", <<vehicleId>>,
                   getVehicleRecords(fuelRecords, vehicleId))
  /\ UNCHANGED <<vehicles, fuelRecords, localStorage, imports, caller>>

call_getAverageConsumption(vehicleId) ==
  /\ ret' = Answer("getAverageConsumption", <<vehicleId>>,
                   getAverageConsumption(fuelRecords, vehicleId))
  /\ UNCHANGED <<vehicles, fuelRecords, localStorage, imports, caller>>

call_getConsumptionStats(vehicleId) ==
  /\ ret' = Answer("getConsumptionStats", <<vehicleId>>,
                   getConsumptionStats(fuelRecords, vehicleId))
  /\ UNCHANGED <<vehicles, fuelRecords, localStorage, imports, caller>>

call_getRecordsByDateRange(vehicleId, startDate, endDate) ==
  /\ ret' = Answer("getRecordsByDateRange", <<vehicleId, startDate, endDate>>,
                   getRecordsByDateRange(fuelRecords, vehicleId, startDate, endDate))
  /\ UNCHANGED <<vehicles, fuelRecords, localStorage, imports, caller>>

call_getAllVehicles ==
  /\ ret' = Answer("getAllVehicles", <<>>, getAllVehicles(vehicles))
  /\ UNCHANGED <<vehicles, fuelRecords, localStorage, imports, caller>>

call_getVehicle(vehicleId) ==
  /\ ret' = Answer("getVehicle", <<vehicleId>>, getVehicle(vehicles, vehicleId))
  /\ UNCHANGED <<vehicles, fuelRecords, localStorage, imports, caller>>

call_exportData ==
  /\ ret' = Answer("exportData", <<>>, exportData(vehicles, fuelRecords))
  /\ UNCHANGED <<vehicles, fuelRecords, localStorage, imports, caller>>

\* The dates a caller may hand to getRecordsByDateRange.
RangeDates == IF caller = "texts" THEN {"d1", Now} ELSE {Now}

Next ==
  \/ \E vehicleId \in VehicleIds, name \in Names, fuelType \in FuelTypes :
       addVehicle(vehicleId, name, fuelType) /\ UNCHANGED twin
  \/ \E vehicleId \in VehicleIds, fuelAmount \in FuelAmounts, distance \in Distances,
        date \in Dates \cup {NoDate}, notes \in Notes \cup {NoNotes}, id \in RecordIds :
       recordFuelConsumption(vehicleId, fuelAmount, distance, date, notes, id)
         /\ UNCHANGED twin
  \/ \E recordId \in RecordIds, updates \in UpdateInputs :
       updateRecord(recordId, updates) /\ UNCHANGED twin
  \/ \E recordId \in RecordIds : deleteRecord(recordId) /\ UNCHANGED twin
  \/ \E vehicleId \in VehicleIds : deleteVehicle(vehicleId) /\ UNCHANGED twin
  \/ \E jsonData \in ImportInputs : importData(jsonData) /\ UNCHANGED twin
  \/ clearAllData /\ UNCHANGED twin

Spec == Init /\ [][Next]_vars

\* The store driven by addVehicle, recordFuelConsumption, updateRecord,
\* deleteRecord and deleteVehicle alone.
NextCrud ==
  \/ \E vehicleId \in VehicleIds, name \in Names, fuelType \in FuelTypes :
       addVehicle(vehicleId, name, fuelType) /\ UNCHANGED twin
  \/ \E vehicleId \in VehicleIds, fuelAmount \in FuelAmounts, distance \in Distances,
        date \in Dates \cup {NoDate}, notes \in Notes \cup {NoNotes}, id \in RecordIds :
       recordFuelConsumption(vehicleId, fuelAmount, distance, date, notes, id)
         /\ UNCHANGED twin
  \/ \E recordId \in RecordIds, updates \in UpdateInputs :
       updateRecord(recordId, updates) /\ UNCHANGED twin
  \/ \E recordId \in RecordIds : deleteRecord(recordId) /\ UNCHANGED twin
  \/ \E vehicleId \in VehicleIds : deleteVehicle(vehicleId) /\ UNCHANGED twin

SpecCrud == Init /\ [][NextCrud]_vars

NextQuery ==
  \/ \E vehicleId \in VehicleIds : call_getVehicleRecords(vehicleId) /\ UNCHANGED twin
  \/ \E vehicleId \in VehicleIds : call_getAverageConsumption(vehicleId) /\ UNCHANGED twin
  \/ \E vehicleId \in VehicleIds : call_getConsumptionStats(vehicleId) /\ UNCHANGED twin
  \/ \E vehicleId \in VehicleIds, startDate \in RangeDates, endDate \in RangeDates :
       call_getRecordsByDateRange(vehicleId, startDate, endDate) /\ UNCHANGED twin
  \/ call_getAllVehicles /\ UNCHANGED twin
  \/ \E vehicleId \in VehicleIds : call_getVehicle(vehicleId) /\ UNCHANGED twin
  \/ call_exportData /\ UNCHANGED twin

\* The store with its queries called between the other operations.
NextWithQueries == Next \/ NextQuery

SpecQuery == Init /\ [][NextWithQueries]_vars

\* The store in a host without localStorage.
SpecMemoryOnly == InitMemoryOnly /\ [][Next]_vars

\* ------------------------------------------------------------ two stores
\* A second store is kept in twin while the variables hold the store that
\* acts; Swap exchanges the two.
Stored(phase, call) ==
  [vehicles |-> vehicles, fuelRecords |-> fuelRecords, localStorage |-> localStorage,
   ret |-> ret, imports |-> imports, call |-> call, phase |-> phase]

Swap(before, after) ==
  /\ twin.phase = before
  /\ vehicles' = twin.vehicles
  /\ fuelRecords' = twin.fuelRecords
  /\ localStorage' = twin.localStorage
  /\ ret' = twin.ret
  /\ imports' = twin.imports
  /\ twin' = Stored(after, twin.call)
  /\ UNCHANGED caller

\* twin with the call that the other store has to repeat.
Called(call) == [twin EXCEPT !.call = call, !.phase = "swap"]

\* The store with localStorage makes any call, which is noted for the other.
Lead ==
  \/ \E vehicleId \in VehicleIds, name \in Names, fuelType \in FuelTypes :
       /\ twin.phase = "lead"
       /\ addVehicle(vehicleId, name, fuelType)
       /\ twin' = Called([op |-> "addVehicle", vehicleId |-> vehicleId,
                          name |-> name, fuelType |-> fuelType])
  \/ \E vehicleId \in VehicleIds, fuelAmount \in FuelAmounts, distance \in Distances,
        date \in Dates \cup {NoDate}, notes \in Notes \cup {NoNotes}, id \in RecordIds :
       /\ twin.phase = "lead"
       /\ recordFuelConsumption(vehicleId, fuelAmount, distance, date, notes, id)
       /\ twin' = Called([op |-> "recordFuelConsumption", vehicleId |-> vehicleId,
                          fuelAmount |-> fuelAmount, distance |-> distance,
                          date |-> date, notes |-> notes, id |-> id])
  \/ \E recordId \in RecordIds, updates \in UpdateInputs :
       /\ twin.phase = "lead"
       /\ updateRecord(recordId, updates)
       /\ twin' = Called([op |-> "updateRecord", recordId |-> recordId,
                          updates |-> updates])
  \/ \E recordId \in RecordIds :
       /\ twin.phase = "lead"
       /\ deleteRecord(recordId)
       /\ twin' = Called([op |-> "deleteRecord", recordId |-> recordId])
  \/ \E vehicleId \in VehicleIds :
       /\ twin.phase = "lead"
       /\ deleteVehicle(vehicleId)
       /\ twin' = Called([op |-> "deleteVehicle", vehicleId |-> vehicleId])
  \/ \E jsonData \in ImportInputs :
       /\ twin.phase = "lead"
       /\ importData(jsonData)
       /\ twin' = Called([op |-> "importData", jsonData |-> jsonData])
  \/ /\ twin.phase = "lead"
     /\ clearAllData
     /\ twin' = Called([op |-> "clearAllData"])

\* twin once its call has been repeated.
Repeated == [twin EXCEPT !.call = NoCall, !.phase = "back"]

\* The store without localStorage makes the call that was noted.
Follow ==
  \/ /\ twin.phase = "follow" /\ twin.call.op = "addVehicle"
     /\ addVehicle(twin.call.vehicleId, twin.call.name, twin.call.fuelType)
     /\ twin' = Repeated
  \/ /\ twin.phase = "follow" /\ twin.call.op = "recordFuelConsumption"
     /\ recordFuelConsumption(twin.call.vehicleId, twin.call.fuelAmount,
                              twin.call.distance, twin.call.date, twin.call.notes,
                              twin.call.id)
     /\ twin' = Repeated
  \/ /\ twin.phase = "follow" /\ twin.call.op = "updateRecord"
     /\ updateRecord(twin.call.recordId, twin.call.updates)
     /\ twin' = Repeated
  \/ /\ twin.phase = "follow" /\ twin.call.op = "deleteRecord"
     /\ deleteRecord(twin.call.recordId)
     /\ twin' = Repeated
  \/ /\ twin.phase = "follow" /\ twin.call.op = "deleteVehicle"
     /\ deleteVehicle(twin.call.vehicleId)
     /\ twin' = Repeated
  \/ /\ twin.phase = "follow" /\ twin.call.op = "importData"
     /\ importData(twin.call.jsonData)
     /\ twin' = Repeated
  \/ /\ twin.phase = "follow" /\ twin.call.op = "clearAllData"
     /\ clearAllData
     /\ twin' = Repeated

\* Two stores, one in a browser on an empty localStorage and one in a host
\* without localStorage, given the same calls one after the other.
InitTwin ==
  /\ localStorage = EmptyStorage
  /\ vehicles = constructor(EmptyStorage).vehicles
  /\ fuelRecords = constructor(EmptyStorage).fuelRecords
  /\ ret = Return("constructor", "none")
  /\ imports = 0
  /\ caller \in Callers
  /\ twin = [vehicles |-> constructor(NoStorage).vehicles,
             fuelRecords |-> constructor(NoStorage).fuelRecords,
             localStorage |-> NoStorage, ret |-> Return("constructor", "none"),
             imports |-> 0, call |-> NoCall, phase |-> "lead"]

NextTwin ==
  \/ Lead
  \/ Swap("swap", "follow")
  \/ Follow
  \/ Swap("back", "lead")

SpecTwin == InitTwin /\ [][NextTwin]_vars

\* The host turns to its other store: both have their own collections and
\* last call, and the one localStorage of the host.
switchInstance ==
  /\ twin.phase = "shared"
  /\ vehicles' = twin.vehicles
  /\ fuelRecords' = twin.fuelRecords
  /\ twin' = [twin EXCEPT !.vehicles = vehicles, !.fuelRecords = fuelRecords]
  /\ ret' = Return("switchInstance", "none")
  /\ UNCHANGED <<localStorage, imports, caller>>

\* new FuelConsumptionTracker() in place of the store that acts.
constructInstance ==
  /\ twin.phase = "shared"
  /\ vehicles' = constructor(localStorage).vehicles
  /\ fuelRecords' = constructor(localStorage).fuelRecords
  /\ ret' = Return("constructor", "none")
  /\ UNCHANGED <<localStorage, imports, caller, twin>>

\* Two stores constructed in one browser on an empty localStorage.
InitShared ==
  /\ localStorage = EmptyStorage
  /\ vehicles = constructor(EmptyStorage).vehicles
  /\ fuelRecords = constructor(EmptyStorage).fuelRecords
  /\ ret = Return("constructor", "none")
  /\ imports = 0
  /\ caller = "tabs"
  /\ twin = [NoTwin EXCEPT !.vehicles = constructor(EmptyStorage).vehicles,
                           !.fuelRecords = constructor(EmptyStorage).fuelRecords,
                           !.phase = "shared"]

NextShared ==
  \/ \E vehicleId \in VehicleIds, name \in Names, fuelType \in FuelTypes :
       addVehicle(vehicleId, name, fuelType) /\ UNCHANGED twin
  \/ \E vehicleId \in VehicleIds, fuelAmount \in FuelAmounts, distance \in Distances,
        date \in Dates \cup {NoDate}, notes \in Notes \cup {NoNotes}, id \in RecordIds :
       recordFuelConsumption(vehicleId, fuelAmount, distance, date, notes, id)
         /\ UNCHANGED twin
  \/ switchInstance
  \/ constructInstance

SpecShared == InitShared /\ [][NextShared]_vars

\* A store given positive amounts with decimals, and asked for the statistics
\* of its vehicles, which all have the one id (the double arithmetic is
\* costly to evaluate, and a vehicle's statistics read its own records only).
StatsVehicleIds == {"v1"}

InitStats ==
  /\ localStorage = EmptyStorage
  /\ vehicles = constructor(EmptyStorage).vehicles
  /\ fuelRecords = constructor(EmptyStorage).fuelRecords
  /\ ret = Return("constructor", "none")
  /\ imports = 0
  /\ caller = "decimals"
  /\ twin = NoTwin

NextStats ==
  \/ \E vehicleId \in StatsVehicleIds, name \in Names, fuelType \in FuelTypes :
       addVehicle(vehicleId, name, fuelType) /\ UNCHANGED twin
  \/ \E vehicleId \in StatsVehicleIds, fuelAmount \in FuelAmounts,
        distance \in Distances, date \in Dates \cup {NoDate},
        notes \in Notes \cup {NoNotes}, id \in RecordIds :
       recordFuelConsumption(vehicleId, fuelAmount, distance, date, notes, id)
         /\ UNCHANGED twin
  \/ \E recordId \in RecordIds, updates \in UpdateInputs :
       updateRecord(recordId, updates) /\ UNCHANGED twin
  \/ \E recordId \in RecordIds : deleteRecord(recordId) /\ UNCHANGED twin
  \/ \E vehicleId \in StatsVehicleIds :
       call_getAverageConsumption(vehicleId) /\ UNCHANGED twin
  \/ \E vehicleId \in StatsVehicleIds :
       call_getConsumptionStats(vehicleId) /\ UNCHANGED twin

SpecStats == InitStats /\ [][NextStats]_vars

\* A store given positive amounts with decimals by a caller that adds no
\* vehicle id a second time, and calls the five operations that keep the
\* totals of the vehicles, on the one vehicle id.
NextTotals ==
  \/ \E vehicleId \in StatsVehicleIds, name \in Names, fuelType \in FuelTypes :
       /\ FindIndex(vehicles, vehicleId) = 0
       /\ addVehicle(vehicleId, name, fuelType) /\ UNCHANGED twin
  \/ \E vehicleId \in StatsVehicleIds, fuelAmount \in FuelAmounts, distance \in Distances,
        date \in Dates \cup {NoDate}, notes \in Notes \cup {NoNotes}, id \in RecordIds :
       recordFuelConsumption(vehicleId, fuelAmount, distance, date, notes, id)
         /\ UNCHANGED twin
  \/ \E recordId \in RecordIds, updates \in UpdateInputs :
       updateRecord(recordId, updates) /\ UNCHANGED twin
  \/ \E recordId \in RecordIds : deleteRecord(recordId) /\ UNCHANGED twin
  \/ \E vehicleId \in StatsVehicleIds : deleteVehicle(vehicleId) /\ UNCHANGED twin

SpecTotals == InitStats /\ [][NextTotals]_vars

\* ================================================================ properties
\* Vocabulary of the properties, written without the operators of the model.
Returned(op) == ret.op = op /\ ret.error = "none"
Threw(op, error) == ret = [op |-> op, error |-> error]

\* The operations that change a store and save it.
MutatingOps ==
  {"addVehicle", "recordFuelConsumption", "updateRecord", "deleteRecord",
   "deleteVehicle", "importData"}

RECURSIVE SumOf(_, _, _)
\* The sum, in hundredths, of field f over the records of rs owned by vehicleId.
SumOf(rs, vehicleId, f) ==
  IF rs = <<>> THEN 0
  ELSE (IF rs[1].vehicleId = vehicleId /\ rs[1][f].k = "num" THEN rs[1][f].v ELSE 0)
       + SumOf(SubSeq(rs, 2, Len(rs)), vehicleId, f)

EarliestWithId(i) == \A j \in 1..(i - 1) : vehicles[j].id # vehicles[i].id

\* C1: after any sequence of addVehicle, recordFuelConsumption, updateRecord,
\* deleteRecord and deleteVehicle calls, every vehicle's totalDistance is the
\* sum of distance, and its totalFuelConsumed the sum of fuelAmount, over the
\* records with its id; the sum is the one the store itself takes of these
\* records for its statistics, added up from 0 in their order.
C1_EveryVehicleTotals ==
  \A i \in 1..Len(vehicles) :
    LET records == getVehicleRecords(fuelRecords, vehicles[i].id)
    IN  /\ vehicles[i].totalDistance = Reduce(records, "distance")
        /\ vehicles[i].totalFuelConsumed = Reduce(records, "fuelAmount")

\* C2: a successful deleteVehicle(id) leaves no record of id, so that
\* getVehicleRecords(id) is empty, and keeps the records of every other
\* vehicle id in their order.
C2_CascadeDelete ==
  [][\A id \in VehicleIds :
       (Returned("deleteVehicle")' /\ deleteVehicle(id))
         => /\ \A k \in 1..Len(fuelRecords') : fuelRecords'[k].vehicleId # id
            /\ getVehicleRecords(fuelRecords', id) = <<>>
            /\ fuelRecords' = SelectSeq(fuelRecords, LAMBDA r : r.vehicleId # id)]_vars

\* deleteVehicle has removed a vehicle and the record of another vehicle is kept.
C2_Witness ==
  /\ Returned("deleteVehicle")
  /\ Len(vehicles) = 1
  /\ Len(fuelRecords) = 1
  /\ fuelRecords[1].vehicleId = vehicles[1].id

\* The updates object with no key.
EmptyPatch ==
  [fuelAmount |-> [k |-> "undefined", v |-> 0], distance |-> [k |-> "undefined", v |-> 0],
   date |-> "undefined", notes |-> "undefined"]

IsPositive(x) == x.k = "num" /\ x.v > 0

\* c is d / f rounded to two decimals, for a distance d that is not
\* negative: at most half a hundredth from the quotient, of two such values
\* the one of larger magnitude; Infinity for d / 0 and NaN for 0 / 0.
IsRoundedQuotient(c, d, f) ==
  IF f.v = 0
    THEN c = (IF d.v = 0 THEN [k |-> "nan", v |-> 0] ELSE [k |-> "inf", v |-> 1])
    ELSE LET mf == IF f.v < 0 THEN -f.v ELSE f.v
             mc == IF f.v < 0 THEN -c.v ELSE c.v
         IN  /\ c.k = "num"
             /\ mc >= 0
             /\ -mf < 2 * (mc * mf - 100 * d.v)
             /\ 2 * (mc * mf - 100 * d.v) <= mf

C4_RoundTrip ==
  /\ [][(Returned("importData")' /\ importData(exportData(vehicles, fuelRecords)))
          => vehicles' = vehicles /\ fuelRecords' = fuelRecords]_vars
  /\ [](LET fresh == Replace(exportData(vehicles, fuelRecords).data, <<>>, <<>>)
        IN  fresh.vehicles = vehicles /\ fresh.fuelRecords = fuelRecords)

\* vs with the totals of the vehicle at index i raised by distance d and fuel f.
Credited(vs, i, d, f) ==
  [j \in 1..Len(vs) |->
     IF j = i
       THEN [vs[j] EXCEPT !.totalDistance = [k |-> "num", v |-> @.v + d.v],
                          !.totalFuelConsumed = [k |-> "num", v |-> @.v + f.v]]
       ELSE vs[j]]

\* C5: recordFuelConsumption on an existing vehicle appends exactly one
\* record, whose consumption is distance / fuelAmount rounded to 2 decimals,
\* adds distance and fuelAmount to the totals of that vehicle (the first
\* with the id), and leaves the other records and vehicles as they were.
C5_RecordAppends ==
  [][\A vehicleId \in VehicleIds, fuelAmount \in FuelAmounts, distance \in Distances,
        date \in Dates \cup {NoDate}, notes \in Notes \cup {NoNotes}, id \in RecordIds :
       (/\ ret'.op = "recordFuelConsumption"
        /\ \E i \in 1..Len(vehicles) : vehicles[i].id = vehicleId
        /\ recordFuelConsumption(vehicleId, fuelAmount, distance, date, notes, id))
         => /\ ret'.error = "none"
            /\ Len(fuelRecords') = Len(fuelRecords) + 1
            /\ SubSeq(fuelRecords', 1, Len(fuelRecords)) = fuelRecords
            /\ LET new == fuelRecords'[Len(fuelRecords')]
               IN  /\ new.vehicleId = vehicleId
                   /\ new.fuelAmount = fuelAmount
                   /\ new.distance = distance
                   /\ IsRoundedQuotient(new.consumption, distance, fuelAmount)
            /\ \E i \in 1..Len(vehicles) :
                 /\ vehicles[i].id = vehicleId
                 /\ \A j \in 1..(i - 1) : vehicles[j].id # vehicleId
                 /\ vehicles' = Credited(vehicles, i, distance, fuelAmount)]_vars

\* recordFuelConsumption has appended a second record, 20 km on 3 l at
\* 6.67 km/l, and the first of two vehicles holds the totals of both records.
C5_Witness ==
  /\ Returned("recordFuelConsumption")
  /\ Len(fuelRecords) = 2 /\ Len(vehicles) = 2
  /\ fuelRecords[2].distance = [k |-> "num", v |-> 2000]
  /\ fuelRecords[2].fuelAmount = [k |-> "num", v |-> 300]
  /\ fuelRecords[2].consumption = [k |-> "num", v |-> 667]
  /\ fuelRecords[1].vehicleId = fuelRecords[2].vehicleId
  /\ vehicles[1].id = fuelRecords[2].vehicleId
  /\ vehicles[1].totalDistance = [k |-> "num", v |-> 4000]
  /\ vehicles[2].totalDistance = [k |-> "num", v |-> 0]

HasVehicle(id) == \E i \in 1..Len(vehicles) : vehicles[i].id = id
HasRecord(id) == \E k \in 1..Len(fuelRecords) : fuelRecords[k].id = id

\* C6: recordFuelConsumption and deleteVehicle with an id of no vehicle, and
\* updateRecord and deleteRecord with an id of no record, throw the not-found
\* error, and a call that throws it leaves vehicles, records and the
\* persisted copies as they were.
C6_NotFoundLeavesNoTrace ==
  [][/\ \A vehicleId \in VehicleIds, fuelAmount \in FuelAmounts, distance \in Distances,
          date \in Dates \cup {NoDate}, notes \in Notes \cup {NoNotes}, id \in RecordIds :
         (/\ ret'.op = "recordFuelConsumption" /\ ~HasVehicle(vehicleId)
          /\ recordFuelConsumption(vehicleId, fuelAmount, distance, date, notes, id))
           => ret'.error = "NotFound"
     /\ \A vehicleId \in VehicleIds :
         (/\ ret'.op = "deleteVehicle" /\ ~HasVehicle(vehicleId)
          /\ deleteVehicle(vehicleId)) => ret'.error = "NotFound"
     /\ \A recordId \in RecordIds, updates \in UpdateInputs :
         (/\ ret'.op = "updateRecord" /\ ~HasRecord(recordId)
          /\ updateRecord(recordId, updates)) => ret'.error = "NotFound"
     /\ \A recordId \in RecordIds :
         (/\ ret'.op = "deleteRecord" /\ ~HasRecord(recordId)
          /\ deleteRecord(recordId)) => ret'.error = "NotFound"
     /\ ret'.error = "NotFound"
         => /\ ret'.op \in {"recordFuelConsumption", "deleteVehicle", "updateRecord",
                            "deleteRecord"}
            /\ vehicles' = vehicles
            /\ fuelRecords' = fuelRecords
            /\ localStorage' = localStorage]_vars

\* deleteRecord has thrown not-found in a store that holds a vehicle, a
\* record with another id and their persisted copies.
C6_Witness ==
  /\ Threw("deleteRecord", "NotFound")
  /\ Len(vehicles) = 1 /\ Len(fuelRecords) = 1
  /\ localStorage.defined
  /\ localStorage.fuelTrackerRecords.present
  /\ Len(localStorage.fuelTrackerRecords.value) = 1

\* C7 as stated: every record's consumption is its distance divided by its
\* fuelAmount, rounded to 2 decimals.
C7_ConsumptionAlwaysDerived ==
  \A k \in 1..Len(fuelRecords) :
    IsRoundedQuotient(fuelRecords[k].consumption, fuelRecords[k].distance,
                      fuelRecords[k].fuelAmount)

\* C7 (amended): after any sequence of recordFuelConsumption and
\* updateRecord calls, every record whose distance and fuelAmount are both
\* positive has consumption equal to distance / fuelAmount rounded to 2
\* decimals (updateRecord recomputes it only when both are positive after the
\* patch, and otherwise keeps the stored value).
C7_ConsumptionDerivedWhenPositive ==
  \A k \in 1..Len(fuelRecords) :
    (IsPositive(fuelRecords[k].distance) /\ IsPositive(fuelRecords[k].fuelAmount))
      => IsRoundedQuotient(fuelRecords[k].consumption, fuelRecords[k].distance,
                           fuelRecords[k].fuelAmount)

\* updateRecord has acted; one record has 20 km on 3 l at the 6.67 km/l
\* that was recomputed from a consumption of 0, the other has a distance
\* of 0 and still the 6.67 km/l of before.
C7_Witness ==
  /\ Returned("updateRecord")
  /\ Len(fuelRecords) = 2
  /\ fuelRecords[1].distance = [k |-> "num", v |-> 0]
  /\ fuelRecords[1].consumption = [k |-> "num", v |-> 667]
  /\ fuelRecords[2].distance = [k |-> "num", v |-> 2000]
  /\ fuelRecords[2].fuelAmount = [k |-> "num", v |-> 300]
  /\ fuelRecords[2].consumption = [k |-> "num", v |-> 667]

\* The value a field takes under a patch: the patch's value when the key is
\* present, the old value when it is not.
Patched(old, new, absent) == IF new = absent THEN old ELSE new

\* C8: updateRecord overwrites the fields among fuelAmount, distance, date,
\* notes that the patch holds and keeps the others; then consumption becomes
\* distance / fuelAmount rounded to 2 decimals if both are positive, and
\* keeps its value otherwise.
C8_PartialPatch ==
  [][\A recordId \in RecordIds, updates \in UpdateInputs :
       (Returned("updateRecord")' /\ updateRecord(recordId, updates))
         => \E k \in 1..Len(fuelRecords) :
              /\ fuelRecords[k].id = recordId
              /\ \A j \in 1..(k - 1) : fuelRecords[j].id # recordId
              /\ LET old == fuelRecords[k]
                     new == fuelRecords'[k]
                 IN  /\ new.id = old.id
                     /\ new.vehicleId = old.vehicleId
                     /\ new.createdAt = old.createdAt
                     /\ new.fuelAmount = Patched(old.fuelAmount, updates.fuelAmount,
                                                 [k |-> "undefined", v |-> 0])
                     /\ new.distance = Patched(old.distance, updates.distance,
                                               [k |-> "undefined", v |-> 0])
                     /\ new.date = Patched(old.date, updates.date, "undefined")
                     /\ new.notes = Patched(old.notes, updates.notes, "undefined")
                     /\ IF IsPositive(new.distance) /\ IsPositive(new.fuelAmount)
                          THEN IsRoundedQuotient(new.consumption, new.distance,
                                                 new.fuelAmount)
                          ELSE new.consumption = old.consumption]_vars

\* updateRecord has set the fuelAmount of a record to 0: its distance is
\* still 20 km and its consumption still the 6.67 km/l of 20 km on 3 l.
C8_Witness ==
  /\ Returned("updateRecord")
  /\ \E k \in 1..Len(fuelRecords) :
       /\ fuelRecords[k].fuelAmount = [k |-> "num", v |-> 0]
       /\ fuelRecords[k].distance = [k |-> "num", v |-> 2000]
       /\ fuelRecords[k].consumption = [k |-> "num", v |-> 667]

\* updateRecord has set the notes of a record and kept its default date.
C8_WitnessTexts ==
  /\ Returned("updateRecord")
  /\ \E k \in 1..Len(fuelRecords) :
       fuelRecords[k].notes = "n1" /\ fuelRecords[k].date = "now"

\* C9: with localStorage available, after every addVehicle,
\* recordFuelConsumption, updateRecord, deleteRecord, deleteVehicle and
\* importData that returns, the persisted vehicles and records are the
\* in-memory ones, so that a store constructed then has exactly the same
\* vehicles and records.
C9_PersistenceMirror ==
  (localStorage.defined /\ ret.op \in MutatingOps /\ ret.error = "none")
    => /\ localStorage.fuelTrackerVehicles.present
       /\ localStorage.fuelTrackerRecords.present
       /\ constructor(localStorage).vehicles = vehicles
       /\ constructor(localStorage).fuelRecords = fuelRecords

\* C10: importData of a snapshot with vehicles and no records replaces the
\* vehicles and leaves the records untouched; of a snapshot with records and
\* no vehicles, replaces the records and leaves the vehicles untouched.
C10_PartialImport ==
  [][\A jsonData \in ImportInputs :
       (Returned("importData")' /\ importData(jsonData))
         => LET keys == DOMAIN jsonData.data
            IN  /\ ("vehicles" \in keys /\ "records" \notin keys)
                     => vehicles' = jsonData.data.vehicles /\ fuelRecords' = fuelRecords
                /\ ("records" \in keys /\ "vehicles" \notin keys)
                     => fuelRecords' = jsonData.data.records /\ vehicles' = vehicles]_vars

\* importData has replaced the vehicles by the one vehicle of the snapshot
\* and the store still holds its two records, of a vehicle now gone.
C10_Witness ==
  /\ Returned("importData")
  /\ Len(vehicles) = 1 /\ vehicles[1].id = "v1"
  /\ vehicles[1].totalDistance = [k |-> "num", v |-> 1000]
  /\ Len(fuelRecords) = 2
  /\ fuelRecords[1].vehicleId = "v2"

\* A snapshot: the text of an object (with vehicles, records or both).
IsSnapshot(jsonData) == jsonData.text = "object"

\* C11: importData of input that is not the text of a snapshot throws the
\* import error and leaves vehicles, records and the persisted copies as
\* they were.
C11_BadImportRejected ==
  [][\A jsonData \in ImportInputs :
       (ret'.op = "importData" /\ ~IsSnapshot(jsonData) /\ importData(jsonData))
         => /\ ret'.error = "Import"
            /\ vehicles' = vehicles
            /\ fuelRecords' = fuelRecords
            /\ localStorage' = localStorage]_vars

\* C12: clearAllData returns without an error and leaves no vehicle and no
\* record in memory and neither item in localStorage, so that a store
\* constructed then has no vehicles and no records.
C12_ClearLeavesNothing ==
  ret.op = "clearAllData"
    => /\ ret.error = "none"
       /\ vehicles = <<>>
       /\ fuelRecords = <<>>
       /\ ~localStorage.fuelTrackerVehicles.present
       /\ ~localStorage.fuelTrackerRecords.present
       /\ constructor(localStorage).vehicles = <<>>
       /\ constructor(localStorage).fuelRecords = <<>>

\* clearAllData has acted on a store that had imported a foreign snapshot,
\* which left it and localStorage with a vehicle or a record.
C12_Witness ==
  /\ Returned("clearAllData")
  /\ imports = 1
  /\ localStorage.defined

\* The records of the store with the vehicle id, in their order.
OwnRecords(id) == SelectSeq(fuelRecords, LAMBDA r : r.vehicleId = id)

\* The number n, given in hundredths.
Hundredths(n) == [k |-> "num", v |-> n]

\* C13 as stated: getAverageConsumption(id) returns 0 when id has no
\* records, 0 when the fuelAmount of its records sums to exactly zero, and
\* otherwise the sum of distance divided by the sum of fuelAmount, rounded to
\* 2 decimals; getConsumptionStats(id) returns the all-zero Stats when id has
\* no records.
C13_AverageZeroAtZeroFuel ==
  /\ ret.op = "getAverageConsumption"
       => LET id == ret.args[1]
              km == SumOf(fuelRecords, id, "distance")
              liters == SumOf(fuelRecords, id, "fuelAmount")
          IN  IF OwnRecords(id) = <<>> \/ liters = 0
                THEN ret.value = Hundredths(0)
                ELSE IsRoundedQuotient(ret.value, Hundredths(km), Hundredths(liters))
  /\ (ret.op = "getConsumptionStats" /\ OwnRecords(ret.args[1]) = <<>>)
       => ret.value = [count |-> 0, totalDistance |-> Hundredths(0),
                       totalFuel |-> Hundredths(0), averageConsumption |-> Hundredths(0),
                       minConsumption |-> Hundredths(0), maxConsumption |-> Hundredths(0)]

\* C13 (amended): getAverageConsumption(id) returns 0 when id has no
\* records, 0 when the fuelAmount of its records sums to zero or less, and
\* otherwise the sum of distance divided by the sum of fuelAmount, rounded to
\* 2 decimals; getConsumptionStats(id) returns the all-zero Stats when id has
\* no records.
C13_AverageZeroUnlessPositiveFuel ==
  /\ ret.op = "getAverageConsumption"
       => LET id == ret.args[1]
              km == SumOf(fuelRecords, id, "distance")
              liters == SumOf(fuelRecords, id, "fuelAmount")
          IN  IF OwnRecords(id) = <<>> \/ liters <= 0
                THEN ret.value = Hundredths(0)
                ELSE IsRoundedQuotient(ret.value, Hundredths(km), Hundredths(liters))
  /\ (ret.op = "getConsumptionStats" /\ OwnRecords(ret.args[1]) = <<>>)
       => ret.value = [count |-> 0, totalDistance |-> Hundredths(0),
                       totalFuel |-> Hundredths(0), averageConsumption |-> Hundredths(0),
                       minConsumption |-> Hundredths(0), maxConsumption |-> Hundredths(0)]

\* getAverageConsumption has returned 0 for a vehicle whose one record has
\* 20 km on -3 l.
C13_Witness ==
  /\ ret.op = "getAverageConsumption"
  /\ ret.value = Hundredths(0)
  /\ Len(OwnRecords(ret.args[1])) = 1
  /\ OwnRecords(ret.args[1])[1].distance = Hundredths(2000)
  /\ OwnRecords(ret.args[1])[1].fuelAmount = Hundredths(-300)

\* C14: after any sequence of recordFuelConsumption, updateRecord and
\* deleteRecord calls, no two records of the store have the same id.
C14_RecordIdsUnique ==
  \A i, j \in 1..Len(fuelRecords) : i # j => fuelRecords[i].id # fuelRecords[j].id

\* a is at most b: the same value, or numbers or infinities in that order
\* (NaN and null are at most themselves only).
AtMost(a, b) ==
  \/ a = b
  \/ /\ a.k \in {"num", "inf"} /\ b.k \in {"num", "inf"}
     /\ \/ a.k = "inf" /\ a.v < 0
        \/ b.k = "inf" /\ b.v > 0
        \/ a.k = "num" /\ b.k = "num" /\ a.v <= b.v

\* C15: for a vehicle with at least one record, getConsumptionStats returns
\* the number of its records as count, the smallest and the largest
\* consumption stored in them as minConsumption and maxConsumption, and the
\* sums of their distance and fuelAmount as totalDistance and totalFuel.
C15_StatsOfRecords ==
  (ret.op = "getConsumptionStats" /\ OwnRecords(ret.args[1]) # <<>>)
    => LET id == ret.args[1]
           own == OwnRecords(id)
           stats == ret.value
       IN  /\ stats.count = Len(own)
           /\ \E i \in 1..Len(own) : stats.minConsumption = own[i].consumption
           /\ \A i \in 1..Len(own) : AtMost(stats.minConsumption, own[i].consumption)
           /\ \E i \in 1..Len(own) : stats.maxConsumption = own[i].consumption
           /\ \A i \in 1..Len(own) : AtMost(own[i].consumption, stats.maxConsumption)
           /\ stats.totalDistance = Hundredths(SumOf(fuelRecords, id, "distance"))
           /\ stats.totalFuel = Hundredths(SumOf(fuelRecords, id, "fuelAmount"))

QueryOps ==
  {"getVehicleRecords", "getAverageConsumption", "getConsumptionStats",
   "getRecordsByDateRange", "getAllVehicles", "getVehicle", "exportData"}

\* C16: a call of getVehicleRecords, getAverageConsumption,
\* getConsumptionStats, getRecordsByDateRange, getAllVehicles, getVehicle or
\* exportData leaves vehicles, records and the persisted copies as they were;
\* getVehicleRecords(id) returns, without an error, the records whose
\* vehicleId is id in their order in the store, none for an unknown id.
C16_QueriesArePure ==
  /\ [][ret'.op \in QueryOps
          => /\ vehicles' = vehicles
             /\ fuelRecords' = fuelRecords
             /\ localStorage' = localStorage]_vars
  /\ [](ret.op = "getVehicleRecords"
          => /\ ret.error = "none"
             /\ ret.value = OwnRecords(ret.args[1])
             /\ ~HasVehicle(ret.args[1]) /\ (\A k \in 1..Len(fuelRecords) :
                                                fuelRecords[k].vehicleId # ret.args[1])
                  => ret.value = <<>>)

\* getVehicleRecords has returned the one record of a vehicle out of a
\* store, persisted, whose second record is of the other vehicle.
C16_Witness ==
  /\ ret.op = "getVehicleRecords"
  /\ Len(fuelRecords) = 2
  /\ ret.value = <<fuelRecords[1]>>
  /\ fuelRecords[2].vehicleId # ret.args[1]
  /\ localStorage.fuelTrackerRecords.present
  /\ Len(localStorage.fuelTrackerRecords.value) = 2

\* C17: two stores constructed on an empty localStorage and without
\* localStorage, and given the same calls, have after every call returned
\* or thrown the same (no call fails in one and not in the other), hold the
\* same vehicles and records, and answer every query alike.
C17_MemoryOnlyEquivalence ==
  twin.phase = "lead"
    => /\ localStorage.defined # twin.localStorage.defined
       /\ ret = twin.ret
       /\ vehicles = twin.vehicles
       /\ fuelRecords = twin.fuelRecords
       /\ exportData(vehicles, fuelRecords) = exportData(twin.vehicles, twin.fuelRecords)
       /\ getAllVehicles(vehicles) = getAllVehicles(twin.vehicles)
       /\ \A id \in VehicleIds :
            /\ getVehicle(vehicles, id) = getVehicle(twin.vehicles, id)
            /\ getVehicleRecords(fuelRecords, id) = getVehicleRecords(twin.fuelRecords, id)
            /\ getAverageConsumption(fuelRecords, id)
                 = getAverageConsumption(twin.fuelRecords, id)
            /\ getConsumptionStats(fuelRecords, id)
                 = getConsumptionStats(twin.fuelRecords, id)
            /\ \A startDate \in RangeDates, endDate \in RangeDates :
                 getRecordsByDateRange(fuelRecords, id, startDate, endDate)
                   = getRecordsByDateRange(twin.fuelRecords, id, startDate, endDate)

\* Both stores have deleted a record and still hold a vehicle and a record;
\* one has no localStorage, the localStorage of the other holds the copies.
C17_Witness ==
  /\ twin.phase = "lead"
  /\ Returned("deleteRecord")
  /\ twin.ret.op = "deleteRecord"
  /\ Len(twin.vehicles) = 1 /\ Len(twin.fuelRecords) = 1
  /\ ~twin.localStorage.defined
  /\ localStorage.fuelTrackerRecords.present
  /\ Len(localStorage.fuelTrackerRecords.value) = 1

\* C18: of two stores on one localStorage, a call on one leaves the
\* vehicles and records of the other as they were, and after every call that
\* changes a store the persisted vehicles and records are those of the store
\* that made the call.
C18_UncoordinatedInstances ==
  /\ [][ret'.op # "switchInstance"
          => /\ twin'.vehicles = twin.vehicles
             /\ twin'.fuelRecords = twin.fuelRecords]_vars
  /\ []((ret.op \in MutatingOps /\ ret.error = "none")
          => /\ localStorage.fuelTrackerVehicles = [present |-> TRUE, value |-> vehicles]
             /\ localStorage.fuelTrackerRecords = [present |-> TRUE, value |-> fuelRecords])

\* vs without its element at index i.
Without(vs, i) == [j \in 1..(Len(vs) - 1) |-> IF j < i THEN vs[j] ELSE vs[j + 1]]

\* C19: addVehicle returns without an error and appends one vehicle with
\* both totals at zero, whether or not the id is already in the store;
\* getVehicle(id) returns the first vehicle with the id; a
\* recordFuelConsumption, updateRecord or deleteRecord changes no vehicle but,
\* at most, one that is the first with its id; and deleteVehicle removes a
\* vehicle that is the first with its id and no other.
C19_FirstMatchWins ==
  /\ [][/\ ret'.op = "addVehicle"
           => /\ ret'.error = "none"
              /\ Len(vehicles') = Len(vehicles) + 1
              /\ SubSeq(vehicles', 1, Len(vehicles)) = vehicles
              /\ vehicles'[Len(vehicles')].totalDistance = Hundredths(0)
              /\ vehicles'[Len(vehicles')].totalFuelConsumed = Hundredths(0)
              /\ ret'.value = vehicles'[Len(vehicles')]
        /\ ret'.op \in {"recordFuelConsumption", "updateRecord", "deleteRecord"}
           => /\ Len(vehicles') = Len(vehicles)
              /\ \E i \in 0..Len(vehicles) :
                   /\ i = 0 \/ EarliestWithId(i)
                   /\ \A j \in 1..Len(vehicles) : j # i => vehicles'[j] = vehicles[j]
        /\ Returned("deleteVehicle")'
           => \E i \in 1..Len(vehicles) :
                EarliestWithId(i) /\ vehicles' = Without(vehicles, i)]_vars
  /\ [](ret.op = "getVehicle"
          => \/ /\ ~HasVehicle(ret.args[1])
                /\ ret.value = [k |-> "undefined", v |-> 0]
             \/ \E i \in 1..Len(vehicles) :
                  /\ vehicles[i].id = ret.args[1]
                  /\ EarliestWithId(i)
                  /\ ret.value = vehicles[i])

\* getVehicle has returned the first of two vehicles with one id, which
\* holds the totals of a record where the second has none.
C19_Witness ==
  /\ ret.op = "getVehicle"
  /\ Len(vehicles) = 2
  /\ vehicles[1].id = vehicles[2].id
  /\ ret.value = vehicles[1]
  /\ vehicles[1].totalDistance = Hundredths(2000)
  /\ vehicles[2].totalDistance = Hundredths(0)
  /\ Len(fuelRecords) = 1

\* C20: deleteRecord(recordId) on a record of the store returns true and
\* removes that record (the first with the id) and no other, the rest keeping
\* fields and order; the vehicle that owns it (the first with its vehicleId)
\* loses the record's distance and fuelAmount from its totals, and every
\* other vehicle is as before (so is every vehicle when none owns it).
C20_DeleteRecordEffect ==
  [][\A recordId \in RecordIds :
       (ret'.op = "deleteRecord" /\ HasRecord(recordId) /\ deleteRecord(recordId))
         => /\ ret'.error = "none"
            /\ ret'.value = TRUE
            /\ \E k \in 1..Len(fuelRecords) :
                 /\ fuelRecords[k].id = recordId
                 /\ \A j \in 1..(k - 1) : fuelRecords[j].id # recordId
                 /\ fuelRecords' = Without(fuelRecords, k)
                 /\ IF HasVehicle(fuelRecords[k].vehicleId)
                      THEN \E i \in 1..Len(vehicles) :
                             /\ vehicles[i].id = fuelRecords[k].vehicleId
                             /\ EarliestWithId(i)
                             /\ vehicles' = Credited(vehicles, i,
                                                     Hundredths(-fuelRecords[k].distance.v),
                                                     Hundredths(-fuelRecords[k].fuelAmount.v))
                      ELSE vehicles' = vehicles]_vars

\* deleteRecord has returned true; of two records of 20 km on 3 l one is
\* left, and its vehicle, the first of two with the id, has totals of 20 km
\* and 3 l.
C20_Witness ==
  /\ Returned("deleteRecord")
  /\ ret.value = TRUE
  /\ Len(fuelRecords) = 1
  /\ fuelRecords[1].distance = Hundredths(2000)
  /\ fuelRecords[1].fuelAmount = Hundredths(300)
  /\ Len(vehicles) = 2
  /\ vehicles[1].id = vehicles[2].id
  /\ vehicles[1].id = fuelRecords[1].vehicleId
  /\ vehicles[1].totalDistance = Hundredths(2000)
  /\ vehicles[1].totalFuelConsumed = Hundredths(300)
  /\ vehicles[2].totalFuelConsumed = Hundredths(0)

\* C21: driven by addVehicle, recordFuelConsumption, updateRecord,
\* deleteRecord and deleteVehicle alone, every record's vehicleId is the id
\* of a vehicle of the store; hence updateRecord and deleteRecord, when they
\* succeed, find the owning vehicle of the record they act on and never skip
\* the adjustment of its totals.
C21_ReferentialIntegrity ==
  /\ [][/\ Returned("updateRecord")' => HasVehicle(ret'.value.vehicleId)
        /\ \A recordId \in RecordIds :
             (Returned("deleteRecord")' /\ HasRecord(recordId) /\ deleteRecord(recordId))
               => FindIndex(vehicles,
                            fuelRecords[FindIndex(fuelRecords, recordId)].vehicleId) # 0]_vars
  /\ [](\A k \in 1..Len(fuelRecords) : HasVehicle(fuelRecords[k].vehicleId))

\* deleteVehicle has removed one of two vehicles, and the two records of the
\* store are records of the vehicle that is left.
C21_Witness ==
  /\ Returned("deleteVehicle")
  /\ Len(vehicles) = 1
  /\ Len(fuelRecords) = 2
  /\ \A k \in 1..2 : fuelRecords[k].vehicleId = vehicles[1].id

\* C22: for a vehicle with at least one record, in a store given positive
\* amounts only, getConsumptionStats returns minConsumption <=
\* averageConsumption <= maxConsumption, and its averageConsumption is the
\* value getAverageConsumption returns for the vehicle.
C22_StatsOrdering ==
  (ret.op = "getConsumptionStats" /\ OwnRecords(ret.args[1]) # <<>>)
    => /\ AtMost(ret.value.minConsumption, ret.value.averageConsumption)
       /\ AtMost(ret.value.averageConsumption, ret.value.maxConsumption)
       /\ ret.value.averageConsumption = getAverageConsumption(fuelRecords, ret.args[1])
====
